---- MODULE Spec2Model ----
(***************************************************************************)
(* The /predict relay of src/app.py: one Flask handler that takes a        *)
(* base64 image from a JSON body, posts it to the Hugging Face inference   *)
(* endpoint, validates the reply and reformats the predictions.  The       *)
(* handler runs on the threads of one gunicorn worker                      *)
(* (src/gunicorn_config.py).                                               *)
(*                                                                         *)
(* Text is modelled as sequences of one-character strings, scores as       *)
(* integers in units of 10^-5 and confidences in units of 10^-4.           *)
(***************************************************************************)
EXTENDS Integers, Sequences, FiniteSets, TLC

\* ------------------------------------------------------------------ bounds

\* number of /predict requests in flight at once (at most `threads`)
NumRequests == 2
\* longest list of raw predictions the backend returns
MaxPreds == 3
\* longest raw label drawn for the label cleaning
MaxLabelLen == 4
\* most pieces an image string is put together from
MaxPieces == 3

\* ------------------------------------------------------------------- text

LowerCase == <<"a","b","c","d","e","f","g","h","i","j","k","l","m",
               "n","o","p","q","r","s","t","u","v","w","x","y","z">>
UpperCase == <<"A","B","C","D","E","F","G","H","I","J","K","L","M",
               "N","O","P","Q","R","S","T","U","V","W","X","Y","Z">>
Digits == {"0","1","2","3","4","5","6","7","8","9"}

Range(s) == {s[k] : k \in DOMAIN s}

islower(c) == c \in Range(LowerCase)
isupper(c) == c \in Range(UpperCase)
IndexIn(c, seq) == CHOOSE k \in DOMAIN seq : seq[k] = c
upper(c) == IF islower(c) THEN UpperCase[IndexIn(c, LowerCase)] ELSE c
lower(c) == IF isupper(c) THEN LowerCase[IndexIn(c, UpperCase)] ELSE c

\* the text from position a to position b (empty when a > b)
Slice(s, a, b) == [k \in 1..(b - a + 1) |-> s[a + k - 1]]

\* whether sep occurs in s starting at position k
OccursAt(s, sep, k) ==
    /\ k >= 1
    /\ k + Len(sep) - 1 <= Len(s)
    /\ \A j \in 1..Len(sep) : s[k + j - 1] = sep[j]

\* Python's `sep in s`
Contains(s, sep) == \E k \in 1..Len(s) : OccursAt(s, sep, k)

\* Python's s.split(sep): the pieces of s between the occurrences of sep,
\* scanned left to right without overlap
RECURSIVE SplitFrom(_, _, _, _)
SplitFrom(s, sep, start, k) ==
    IF k + Len(sep) - 1 > Len(s)
    THEN <<Slice(s, start, Len(s))>>
    ELSE IF OccursAt(s, sep, k)
         THEN <<Slice(s, start, k - 1)>>
              \o SplitFrom(s, sep, k + Len(sep), k + Len(sep))
         ELSE SplitFrom(s, sep, start, k + 1)

split(s, sep) == SplitFrom(s, sep, 1, 1)

Marker == <<"b","a","s","e","6","4",",">>

\* app.py 36-38: the string sent on as "inputs".  Python's [1] is the second
\* piece of the split, index 2 of a TLA+ sequence.
CleanBase64(b64_string) ==
    IF Contains(b64_string, Marker)
    THEN split(b64_string, Marker)[2]
    ELSE b64_string

\* ----------------------------------------------------------------- labels

\* how many digits stand in s from position k on
RECURSIVE DigitRun(_, _)
DigitRun(s, k) ==
    IF k <= Len(s) /\ s[k] \in Digits THEN 1 + DigitRun(s, k + 1) ELSE 0

\* length of the match of ^n\d+- at the start of s, 0 when there is none
PrefixLen(s) ==
    LET d == DigitRun(s, 2)
    IN  IF /\ Len(s) >= 1
           /\ s[1] = "n"
           /\ d >= 1
           /\ Len(s) >= d + 2
           /\ s[d + 2] = "-"
        THEN d + 2
        ELSE 0

\* re.sub(r'^n\d+-', '', raw_label)
StripSynset(raw_label) == Slice(raw_label, PrefixLen(raw_label) + 1, Len(raw_label))

\* .replace('_', ' ')
ReplaceUnderscores(s) == [k \in DOMAIN s |-> IF s[k] = "_" THEN " " ELSE s[k]]

\* str.title(): one pass that upper-cases a cased character when the
\* character before it is not cased and lower-cases it otherwise
RECURSIVE TitleFrom(_, _, _)
TitleFrom(s, k, previous_is_cased) ==
    IF k > Len(s) THEN <<>>
    ELSE LET c == s[k]
             cased == islower(c) \/ isupper(c)
             out == IF ~cased THEN c
                    ELSE IF previous_is_cased THEN lower(c) ELSE upper(c)
         IN  <<out>> \o TitleFrom(s, k + 1, cased)

\* a faulty variant of title: the first character of each space-separated
\* word is upper-cased and the rest of the word lower-cased
RECURSIVE CapWordsFrom(_, _, _)
CapWordsFrom(s, k, in_word) ==
    IF k > Len(s) THEN <<>>
    ELSE LET c == s[k]
             out == IF in_word THEN lower(c) ELSE upper(c)
         IN  <<out>> \o CapWordsFrom(s, k + 1, c # " ")

CapWords(s) == CapWordsFrom(s, 1, FALSE)

title(s) == TitleFrom(s, 1, FALSE)

\* app.py 104
CleanLabel(raw_label) == title(ReplaceUnderscores(StripSynset(raw_label)))

\* round(score, 4) on a score given in units of 10^-5: to the nearest
\* multiple of 10^-4, an exact half going to the even neighbour
round4(score) ==
    LET q == score \div 10
        rem == score % 10
    IN  IF rem < 5 THEN q
        ELSE IF rem > 5 THEN q + 1
        ELSE IF q % 2 = 0 THEN q ELSE q + 1

\* ------------------------------------------------------------ JSON values

Requests == 1..NumRequests

\* a request body as request.get_json(silent=True) returns it: None
\* ("none"), a JSON object or a JSON array.  image_key is Python's
\* `"image" in data`: a key of an object, an element of an array.
NoBody == [type |-> "none", nonempty |-> FALSE, image_key |-> FALSE,
           image_type |-> "absent", image |-> <<>>, top_k |-> 0]

ObjectBody(image, top_k) ==
    [type |-> "object", nonempty |-> TRUE, image_key |-> TRUE,
     image_type |-> "str", image |-> image, top_k |-> top_k]

\* one entry of the backend's list
Pred(shape, label, score) == [shape |-> shape, label |-> label, score |-> score]

NoJson == [type |-> "none", items |-> <<>>, error_key |-> FALSE,
           error |-> "", other_keys |-> FALSE]

JsonList(items) == [NoJson EXCEPT !.type = "list", !.items = items]
\* [[...]]: a list whose first element is the list of predictions
JsonNested(items) == [NoJson EXCEPT !.type = "nested", !.items = items]
JsonError(error) == [NoJson EXCEPT !.type = "object", !.error_key = TRUE,
                                   !.error = error]
JsonObject(other_keys) == [NoJson EXCEPT !.type = "object",
                                         !.other_keys = other_keys]
JsonNull == [NoJson EXCEPT !.type = "null"]

\* what requests.post returns or raises
NoReply == [exc |-> "none", message |-> "", status_code |-> 0,
            text |-> "none", raw |-> "", json |-> NoJson]

Raised(exc, message) == [NoReply EXCEPT !.exc = exc, !.message = message]

HttpReply(status_code, text, raw, json) ==
    [NoReply EXCEPT !.status_code = status_code, !.text = text,
                    !.raw = raw, !.json = json]

\* ---------------------------------------------------------------- results

NoDetails == [kind |-> "none", text |-> "", json |-> NoJson]
TextDetails(text) == [NoDetails EXCEPT !.kind = "text", !.text = text]
JsonDetails(json) == [NoDetails EXCEPT !.kind = "json", !.json = json]

\* what the handler returns: the HTTP status and the keys of the JSON
\* body ("" and FALSE stand for a key that is absent)
NoResult == [code |-> 0, status |-> "", error |-> "", details |-> NoDetails,
             has_predictions |-> FALSE, predictions |-> <<>>]

ErrorResult(code, error, details) ==
    [NoResult EXCEPT !.code = code, !.error = error, !.details = details]

\* app.py 32
NoImageResult == ErrorResult(400, "No image provided", NoDetails)

\* app.py 60-64
EmptyResult ==
    ErrorResult(502, "HF API Error", TextDetails("Empty response from Hugging Face"))

\* app.py 69-74
NonJsonResult ==
    ErrorResult(502, "HF API Error",
                TextDetails("Non-JSON response (Likely HTML error page)"))

\* a faulty variant of ApiErrorResult: the parsed body and the backend's
\* status are dropped
ApiErrorGeneric(status_code, hf_predictions) ==
    ErrorResult(502, "HF API Error", NoDetails)

\* app.py 77-81
ApiErrorResult(status_code, hf_predictions) ==
    ErrorResult(status_code, "HF API Error", JsonDetails(hf_predictions))

\* app.py 88-92
InferenceErrorResult(error) ==
    ErrorResult(503, "HF Inference Error", TextDetails(error))

\* a faulty variant of SuccessResult: the list is cut to its first entry
SuccessFirstOnly(formatted_results) ==
    [NoResult EXCEPT !.code = 200, !.status = "success",
                     !.has_predictions = TRUE,
                     !.predictions = IF formatted_results = <<>> THEN <<>>
                                    ELSE <<formatted_results[1]>>]

\* app.py 112-115
SuccessResult(formatted_results) ==
    [NoResult EXCEPT !.code = 200, !.status = "success",
                     !.has_predictions = TRUE,
                     !.predictions = formatted_results]

TimeoutMessage == "Model timed out (Cold Start). Try again."

\* a faulty variant of Except: the Timeout clause is missing
ExceptUntyped(exc, message, formatted_results) ==
    ErrorResult(500, message, NoDetails)

\* a faulty variant of Except: the entries formatted so far are returned
\* with the error
ExceptWithPartial(exc, message, formatted_results) ==
    IF exc = "Timeout"
    THEN ErrorResult(504, TimeoutMessage, NoDetails)
    ELSE [ErrorResult(500, message, NoDetails)
            EXCEPT !.has_predictions = formatted_results # <<>>,
                   !.predictions = formatted_results]

\* app.py 117-121: the two except clauses; formatted_results is in scope
\* there and is not used
Except(exc, message, formatted_results) ==
    IF exc = "Timeout"
    THEN ErrorResult(504, TimeoutMessage, NoDetails)
    ELSE ErrorResult(500, message, NoDetails)

\* app.py 94-96
Flatten(hf_predictions) ==
    IF hf_predictions.type = "nested"
    THEN JsonList(hf_predictions.items)
    ELSE hf_predictions

\* what `for i, pred in enumerate(hf_predictions)` walks over: the
\* elements of a list, the keys of an object (strings, not dicts)
KeyElement == Pred("notdict", <<>>, 0)

Elements(hf_predictions) ==
    IF hf_predictions.type = "object"
    THEN IF hf_predictions.other_keys THEN <<KeyElement>> ELSE <<>>
    ELSE hf_predictions.items

Unknown == <<"U","n","k","n","o","w","n">>

\* app.py 101-110: one formatted entry
FormatEntry(i, pred) ==
    [label |-> CleanLabel(IF pred.shape = "nolabel" THEN Unknown ELSE pred.label),
     confidence |-> round4(IF pred.shape = "noscore" THEN 0 ELSE pred.score),
     is_best_match |-> (i = 0)]

\* the exception one loop step raises, "" when it raises none
FormatError(pred) ==
    CASE pred.shape = "notdict" -> "'str' object has no attribute 'get'"
      [] pred.shape = "badscore" -> "type str doesn't define __round__ method"
      [] OTHER -> ""

\* ----------------------------------------------------------------- inputs

Fox == <<"n","0","-","f","o","x">>
Pug == <<"p","u","g">>
Scores == {3125, 9375}

PredEntries ==
    {Pred("ok", l, s) : l \in {Fox, Pug}, s \in Scores}
    \cup {Pred("nolabel", <<>>, 9375), Pred("noscore", Fox, 0),
          Pred("notdict", <<>>, 0)}

RECURSIVE SeqsUpTo(_, _)
SeqsUpTo(S, n) ==
    IF n = 0 THEN {<<>>}
    ELSE LET shorter == SeqsUpTo(S, n - 1)
         IN  shorter \cup {Append(q, x) : q \in shorter, x \in S}

PredLists == SeqsUpTo(PredEntries, MaxPreds)

Plain == <<"A","Q","=","=">>
DataUri == <<"d","a","t","a",":">> \o Marker \o Plain

Bodies ==
    {NoBody,
     \* {} and []
     [NoBody EXCEPT !.type = "object"],
     [NoBody EXCEPT !.type = "array"],
     \* {"x": 1} and ["x"]
     [NoBody EXCEPT !.type = "object", !.nonempty = TRUE],
     [NoBody EXCEPT !.type = "array", !.nonempty = TRUE],
     \* ["image"]
     [NoBody EXCEPT !.type = "array", !.nonempty = TRUE, !.image_key = TRUE],
     \* {"image": 5}
     [ObjectBody(<<>>, 0) EXCEPT !.image_type = "num"],
     ObjectBody(Plain, 0), ObjectBody(Plain, 1), ObjectBody(DataUri, 0)}

ErrorStatuses == {404, 503, 504}
Html == "<html>Not Found</html>"

TimeoutReply == Raised("Timeout", "Read timed out. (read timeout=60)")

Replies ==
    {TimeoutReply, Raised("ConnectionError", "Connection refused")}
    \cup {HttpReply(200, "json", "", j) :
            j \in {JsonList(q) : q \in PredLists}
                  \cup {JsonNested(q) : q \in PredLists}
                  \cup {JsonError("Model is loading"), JsonObject(TRUE),
                        JsonObject(FALSE), JsonNull}}
    \cup {HttpReply(c, "empty", "", NoJson) : c \in ErrorStatuses \cup {200}}
    \cup {HttpReply(c, "html", Html, NoJson) : c \in ErrorStatuses \cup {200}}
    \cup {HttpReply(c, "json", "", j) :
            c \in ErrorStatuses,
            j \in {JsonError("Model not found"), JsonList(<<>>)}}

\* the inputs of the concurrent requests
ConcBodies == {NoBody, ObjectBody(Plain, 0), ObjectBody(DataUri, 0)}

ConcReplies ==
    {TimeoutReply,
     HttpReply(404, "json", "", JsonError("Model not found")),
     HttpReply(200, "json", "",
               JsonList(<<Pred("ok", Fox, 9375), Pred("ok", Pug, 3125)>>)),
     HttpReply(200, "json", "",
               JsonNested(<<Pred("ok", Pug, 9375), Pred("notdict", <<>>, 0)>>))}

\* ------------------------------------------------------------------ state

VARIABLES
    headers,            \* app.py 17-22: module level, built once at import
    pc,                 \* where each request's handler stands
    request_json,       \* the body each request arrived with
    backend_reply,      \* what requests.post gave each request's call
    outbox,             \* the calls each request has sent to the backend
    result,             \* what each request's handler returned
    data, b64_string, response, hf_predictions, formatted_results, i
                        \* the locals of predict(), one frame per call

vars == <<headers, pc, request_json, backend_reply, outbox, result,
          data, b64_string, response, hf_predictions, formatted_results, i>>

locals == <<data, b64_string, response, hf_predictions, formatted_results, i>>

\* a faulty variant of Frame: the locals are module-level globals, one copy
\* for all calls
SharedFrame(r) == 1

\* the frame holding the locals of request r's call of predict(): every
\* call has its own
Frame(r) == r

HeaderChoices ==
    {[Authorization |-> "Bearer <HF_TOKEN>", ContentType |-> "application/json"],
     [Authorization |-> "", ContentType |-> "application/json"]}

Init ==
    /\ headers \in HeaderChoices
    /\ pc = [r \in Requests |-> "idle"]
    /\ request_json = [r \in Requests |-> NoBody]
    /\ backend_reply = [r \in Requests |-> NoReply]
    /\ outbox = [r \in Requests |-> <<>>]
    /\ result = [r \in Requests |-> NoResult]
    /\ data = [r \in Requests |-> NoBody]
    /\ b64_string = [r \in Requests |-> <<>>]
    /\ response = [r \in Requests |-> NoReply]
    /\ hf_predictions = [r \in Requests |-> NoJson]
    /\ formatted_results = [r \in Requests |-> <<>>]
    /\ i = [r \in Requests |-> 0]

\* `return ...`: the handler of r ends with this result
ReturnWith(r, res) ==
    /\ result' = [result EXCEPT ![r] = res]
    /\ pc' = [pc EXCEPT ![r] = "done"]

Goto(r, label) ==
    /\ pc' = [pc EXCEPT ![r] = label]
    /\ UNCHANGED result

\* app.py 30-32: the body is read and checked for an image
Receive(r, bodies) ==
    /\ pc[r] = "idle"
    /\ \E body \in bodies :
        /\ request_json' = [request_json EXCEPT ![r] = body]
        /\ data' = [data EXCEPT ![Frame(r)] = body]
        /\ IF ~body.nonempty \/ ~body.image_key
           THEN ReturnWith(r, NoImageResult)
           ELSE Goto(r, "clean")
    /\ UNCHANGED <<headers, backend_reply, outbox, b64_string, response,
                   hf_predictions, formatted_results, i>>

\* the exception data["image"] or `"base64," in b64_string` raises, "" if none
CleanError(d) ==
    CASE d.type = "none" -> "'NoneType' object is not subscriptable"
      [] d.type = "array" -> "list indices must be integers or slices, not str"
      [] ~d.image_key -> "'image'"
      [] d.image_type # "str" -> "argument of type 'int' is not iterable"
      [] OTHER -> ""

\* app.py 36-43: the data-URI prefix is cut off
Clean(r) ==
    /\ pc[r] = "clean"
    /\ LET d == data[Frame(r)]
       IN  IF CleanError(d) # ""
           THEN /\ ReturnWith(r, Except("Exception", CleanError(d),
                                        formatted_results[Frame(r)]))
                /\ UNCHANGED b64_string
           ELSE /\ b64_string' = [b64_string EXCEPT ![Frame(r)] = CleanBase64(d.image)]
                /\ Goto(r, "post")
    /\ UNCHANGED <<headers, request_json, backend_reply, outbox, data,
                   response, hf_predictions, formatted_results, i>>

\* app.py 47-52: the call goes out and the handler blocks on it
Post(r) ==
    /\ pc[r] = "post"
    /\ outbox' = [outbox EXCEPT ![r] =
                    Append(@, [headers |-> headers,
                               inputs |-> b64_string[Frame(r)],
                               wait_for_model |-> TRUE])]
    /\ Goto(r, "waiting")
    /\ UNCHANGED <<headers, request_json, backend_reply, locals>>

\* app.py 47-52, 117-121: requests.post returns a response or raises
BackendReply(r, replies) ==
    /\ pc[r] = "waiting"
    /\ \E rep \in replies :
        /\ backend_reply' = [backend_reply EXCEPT ![r] = rep]
        /\ IF rep.exc # "none"
           THEN /\ ReturnWith(r, Except(rep.exc, rep.message,
                                        formatted_results[Frame(r)]))
                /\ UNCHANGED response
           ELSE /\ response' = [response EXCEPT ![Frame(r)] = rep]
                /\ Goto(r, "validate")
    /\ UNCHANGED <<headers, request_json, outbox, data, b64_string,
                   hf_predictions, formatted_results, i>>

\* app.py 57-92: what the checks on the reply return, NoResult when the
\* reply passes them all
Rejection(resp) ==
    CASE resp.text = "empty" -> EmptyResult
      [] resp.text # "json" -> NonJsonResult
      [] resp.status_code # 200 -> ApiErrorResult(resp.status_code, resp.json)
      [] resp.json.type = "object" /\ resp.json.error_key ->
            InferenceErrorResult(resp.json.error)
      [] OTHER -> NoResult

\* app.py 57-99: the reply is checked, flattened and the loop set up
Validate(r) ==
    /\ pc[r] = "validate"
    /\ LET resp == response[Frame(r)]
       IN  IF Rejection(resp) # NoResult
           THEN /\ ReturnWith(r, Rejection(resp))
                /\ UNCHANGED <<hf_predictions, formatted_results, i>>
           ELSE /\ hf_predictions' = [hf_predictions EXCEPT ![Frame(r)] = Flatten(resp.json)]
                /\ formatted_results' = [formatted_results EXCEPT ![Frame(r)] = <<>>]
                /\ i' = [i EXCEPT ![Frame(r)] = 0]
                /\ Goto(r, "format")
    /\ UNCHANGED <<headers, request_json, backend_reply, outbox, data,
                   b64_string, response>>

\* app.py 100-110: one pass of the loop, or the exception it raises
Format(r) ==
    /\ pc[r] = "format"
    /\ LET f == Frame(r)
           hf == hf_predictions[f]
       IN  IF hf.type \notin {"list", "object"}
           THEN /\ ReturnWith(r, Except("Exception", "'NoneType' object is not iterable",
                                        formatted_results[f]))
                /\ UNCHANGED <<formatted_results, i>>
           ELSE /\ i[f] < Len(Elements(hf))
                /\ LET pred == Elements(hf)[i[f] + 1]
                   IN  IF FormatError(pred) # ""
                       THEN /\ ReturnWith(r, Except("Exception", FormatError(pred),
                                                    formatted_results[f]))
                            /\ UNCHANGED <<formatted_results, i>>
                       ELSE /\ formatted_results' =
                                 [formatted_results EXCEPT ![f] =
                                     Append(@, FormatEntry(i[f], pred))]
                            /\ i' = [i EXCEPT ![f] = @ + 1]
                            /\ Goto(r, "format")
    /\ UNCHANGED <<headers, request_json, backend_reply, outbox, data,
                   b64_string, response, hf_predictions>>

\* app.py 112-115: the loop is over and the list is returned
Return(r) ==
    /\ pc[r] = "format"
    /\ LET f == Frame(r)
       IN  /\ hf_predictions[f].type \in {"list", "object"}
           /\ i[f] >= Len(Elements(hf_predictions[f]))
           /\ ReturnWith(r, SuccessResult(formatted_results[f]))
    /\ UNCHANGED <<headers, request_json, backend_reply, outbox, locals>>

\* one request at a time, over every body and every reply
Next ==
    \/ Receive(1, Bodies)
    \/ Clean(1)
    \/ Post(1)
    \/ BackendReply(1, Replies)
    \/ Validate(1)
    \/ Format(1)
    \/ Return(1)

Spec == Init /\ [][Next]_vars

\* the worker's threads: requests handled at once, their steps interleaved
NextConc ==
    \E r \in Requests :
        \/ Receive(r, ConcBodies)
        \/ Clean(r)
        \/ Post(r)
        \/ BackendReply(r, ConcReplies)
        \/ Validate(r)
        \/ Format(r)
        \/ Return(r)

SpecConc == Init /\ [][NextConc]_vars

\* ------------------------------------------- the prefix cut, on its own

Pieces == {Marker, <<"A">>, <<"d","a","t","a",":">>,
           <<"b","a","s","e","6","4">>, <<",">>}

RECURSIVE Joined(_)
Joined(n) ==
    IF n = 0 THEN {<<>>}
    ELSE LET shorter == Joined(n - 1)
         IN  shorter \cup {q \o p : q \in shorter, p \in Pieces}

\* image strings put together from at most MaxPieces pieces
ImageStrings == Joined(MaxPieces)

StripBodies == {ObjectBody(image, 0) : image \in ImageStrings}

StripReplies == {TimeoutReply}

NextStrip ==
    \/ Receive(1, StripBodies)
    \/ Clean(1)
    \/ Post(1)
    \/ BackendReply(1, StripReplies)

SpecStrip == Init /\ [][NextStrip]_vars

\* ------------------------------------------ the label cleaning, on its own

LabelAlphabet == {"n", "a", "B", "0", "-", "_", " "}

RawLabels == SeqsUpTo(LabelAlphabet, MaxLabelLen)

LabelReplies ==
    {HttpReply(200, "json", "", JsonList(<<Pred("ok", l, 9375)>>)) : l \in RawLabels}

LabelBodies == {ObjectBody(Plain, 0)}

NextLabel ==
    \/ Receive(1, LabelBodies)
    \/ Clean(1)
    \/ Post(1)
    \/ BackendReply(1, LabelReplies)
    \/ Validate(1)
    \/ Format(1)
    \/ Return(1)

SpecLabel == Init /\ [][NextLabel]_vars

\* ================================================================= claims

Done(r) == pc[r] = "done"
Succeeded(r) == Done(r) /\ result[r].status = "success"

\* the raw predictions of the reply to r's call, one nesting level unwrapped
Raw(r) == backend_reply[r].json.items
RawScore(p) == IF p.shape = "noscore" THEN 0 ELSE p.score
RawLabel(p) == IF p.shape = "nolabel" THEN Unknown ELSE p.label

\* every entry a {label, score} pair
WellFormed(raw) == \A k \in DOMAIN raw : raw[k].shape = "ok"

Best(r) == {k \in DOMAIN result[r].predictions :
              result[r].predictions[k].is_best_match}

\* the first position of the highest score in a raw list
FirstMax(raw) ==
    CHOOSE k \in DOMAIN raw :
        /\ \A j \in DOMAIN raw : RawScore(raw[j]) <= RawScore(raw[k])
        /\ \A j \in 1..(k - 1) : RawScore(raw[j]) < RawScore(raw[k])

\* C1: for every non-empty list of raw predictions, in any score order,
\* the success response has exactly one entry with is_best_match = true, and
\* it is the raw entry of maximum score, the first such in backend order.
C1_BestMatchIsMaximum ==
    \A r \in Requests :
        Succeeded(r) /\ Raw(r) # <<>> /\ WellFormed(Raw(r)) =>
            /\ Cardinality(Best(r)) = 1
            /\ \A k \in Best(r) :
                LET top == Raw(r)[FirstMax(Raw(r))]
                    p == result[r].predictions[k]
                IN  /\ p.confidence = round4(RawScore(top))
                    /\ p.label = CleanLabel(RawLabel(top))

\* a raw list put in descending score order, equal scores keeping their order
RECURSIVE SortedByScore(_)
SortedByScore(raw) ==
    IF raw = <<>> THEN <<>>
    ELSE LET k == FirstMax(raw)
         IN  <<raw[k]>> \o SortedByScore(SubSeq(raw, 1, k - 1)
                                         \o SubSeq(raw, k + 1, Len(raw)))

\* C2: the predictions of the success response are in descending order of
\* confidence, entries of equal score in their backend order.
C2_DescendingByConfidence ==
    \A r \in Requests :
        Succeeded(r) /\ WellFormed(Raw(r)) =>
            LET out == result[r].predictions
                want == SortedByScore(Raw(r))
            IN  /\ \A k \in 1..(Len(out) - 1) :
                      out[k].confidence >= out[k + 1].confidence
                /\ Len(out) = Len(want)
                /\ \A k \in DOMAIN out :
                      /\ out[k].confidence = round4(RawScore(want[k]))
                      /\ out[k].label = CleanLabel(RawLabel(want[k]))

Min(a, b) == IF a <= b THEN a ELSE b

HasImageField(body) == body.type = "object" /\ body.image_key

\* C4: a request with no parseable JSON body or with no image field gets the
\* 'No image provided' error (400), and no backend call is made for it.
C4_MissingImageRejected ==
    \A r \in Requests :
        Done(r) /\ ~HasImageField(request_json[r]) =>
            /\ result[r] = NoImageResult
            /\ outbox[r] = <<>>

\* C5: a response is a full success result or an error, never both and
\* never a partial predictions list.
C5_SuccessOrErrorNeverPartial ==
    \A r \in Requests :
        result[r] # NoResult =>
            \/ /\ result[r].status = "success"
               /\ result[r].error = ""
               /\ result[r].has_predictions
               /\ Len(result[r].predictions) = Len(Raw(r))
            \/ /\ result[r].error # ""
               /\ result[r].status = ""
               /\ ~result[r].has_predictions
               /\ result[r].predictions = <<>>

\* a failure part-way through the formatting
C5_Witness ==
    /\ Done(1)
    /\ result[1].error # ""
    /\ formatted_results[1] # <<>>
    /\ Len(formatted_results[1]) < Len(Raw(1))

\* C6: a timed-out backend call is reported as the timeout error (504),
\* which no other outcome produces, and no request issues a second call.
C6_TimeoutDistinctNoRetry ==
    \A r \in Requests :
        /\ Len(outbox[r]) <= 1
        /\ Done(r) /\ backend_reply[r].exc = "Timeout" =>
              /\ result[r].code = 504
              /\ result[r].error = TimeoutMessage
              /\ result[r].status = ""
        /\ Done(r) /\ backend_reply[r].exc # "Timeout" =>
              result[r].error # TimeoutMessage

C6_Witness ==
    /\ Done(1)
    /\ backend_reply[1].exc = "Timeout"
    /\ result[1].code = 504
    /\ Len(outbox[1]) = 1

\* a backend call that ended in a failure other than a timeout
BackendFailed(rep) ==
    \/ rep.exc = "ConnectionError"
    \/ rep.exc = "none" /\ rep.text # "none" /\ rep.status_code # 200
    \/ rep.exc = "none" /\ rep.text = "json" /\ rep.json.type = "object"
                        /\ rep.json.error_key

\* whether an error response holds what the backend sent as JSON or raised
CarriesParsedDetail(res, rep) ==
    /\ rep.exc = "ConnectionError" => res.error = rep.message
    /\ rep.text = "json" /\ rep.status_code # 200 =>
          res.details = JsonDetails(rep.json) /\ res.code = rep.status_code
    /\ rep.text = "json" /\ rep.status_code = 200 =>
          res.details = TextDetails(rep.json.error)

IsError(res) == res.error # "" /\ res.status # "success" /\ res.code >= 400

\* C7 as claimed: a failed backend call gives an error that carries the
\* detail the backend provided, the text of a non-JSON body included.
C7_BackendDetailKept ==
    \A r \in Requests :
        Done(r) /\ BackendFailed(backend_reply[r]) =>
            /\ IsError(result[r])
            /\ CarriesParsedDetail(result[r], backend_reply[r])
            /\ backend_reply[r].text = "html" =>
                  result[r].details = TextDetails(backend_reply[r].raw)

\* C7 as amended: a failed backend call gives an error, never a success;
\* the error carries the backend's detail when the body parsed as JSON or
\* the call raised, and a fixed description with 502 when the body is empty
\* or not JSON.
C7_BackendDetailKeptWhenJson ==
    \A r \in Requests :
        Done(r) /\ BackendFailed(backend_reply[r]) =>
            /\ IsError(result[r])
            /\ CarriesParsedDetail(result[r], backend_reply[r])
            /\ backend_reply[r].text = "html" =>
                  /\ result[r].code = 502
                  /\ result[r].details =
                        TextDetails("Non-JSON response (Likely HTML error page)")
            /\ backend_reply[r].text = "empty" =>
                  /\ result[r].code = 502
                  /\ result[r].details =
                        TextDetails("Empty response from Hugging Face")

C7_Witness ==
    /\ Done(1)
    /\ backend_reply[1].status_code = 404
    /\ backend_reply[1].text = "json"
    /\ result[1].details = JsonDetails(JsonError("Model not found"))

IsLetter(c) == islower(c) \/ isupper(c)

Suffixes(raw) == {SubSeq(raw, k, Len(raw)) : k \in 1..(Len(raw) + 1)}

\* whether s is raw with a leading n<digits>- cut off, or raw itself when
\* raw has no such prefix
IsStripped(raw, s) ==
    LET cuts == {d \in 1..Len(raw) :
                   /\ Len(raw) >= d + 2
                   /\ raw[1] = "n"
                   /\ \A k \in 2..(d + 1) : raw[k] \in Digits
                   /\ raw[d + 2] = "-"}
    IN  IF cuts = {} THEN s = raw
        ELSE \E d \in cuts : s = SubSeq(raw, d + 3, Len(raw))

\* whether position k of s holds the first letter of its
\* whitespace-delimited word (underscores count as the spaces they become)
FirstLetterOfWord(s, k) ==
    \A j \in 1..(k - 1) :
        IsLetter(s[j]) => \E m \in (j + 1)..(k - 1) : s[m] \in {" ", "_"}

\* whether position k of s starts a run of letters
FirstOfLetterRun(s, k) == k = 1 \/ ~IsLetter(s[k - 1])

\* the raw label and the response label of a finished one-entry request
LabelIn(r) == Raw(r)[1].label
LabelOut(r) == result[r].predictions[1].label

\* C8 as claimed: the response label is the raw label without its n<digits>-
\* prefix, underscores turned to spaces, and in every whitespace-delimited
\* word the first letter upper-cased and the other letters lower-cased.
C8_TitleCasePerWord ==
    \A r \in Requests :
        Succeeded(r) /\ Len(Raw(r)) = 1 =>
            \E s \in Suffixes(LabelIn(r)) :
                /\ IsStripped(LabelIn(r), s)
                /\ Len(LabelOut(r)) = Len(s)
                /\ \A k \in DOMAIN s :
                      LabelOut(r)[k] =
                          IF s[k] = "_" THEN " "
                          ELSE IF ~IsLetter(s[k]) THEN s[k]
                          ELSE IF FirstLetterOfWord(s, k) THEN upper(s[k])
                          ELSE lower(s[k])

\* C8 as amended: the same, except that the case follows runs of letters:
\* a letter is upper-cased when it is the first character or follows a
\* character that is not a letter, and lower-cased otherwise.
C8_TitleCasePerLetterRun ==
    \A r \in Requests :
        Succeeded(r) /\ Len(Raw(r)) = 1 =>
            \E s \in Suffixes(LabelIn(r)) :
                /\ IsStripped(LabelIn(r), s)
                /\ Len(LabelOut(r)) = Len(s)
                /\ \A k \in DOMAIN s :
                      LabelOut(r)[k] =
                          IF s[k] = "_" THEN " "
                          ELSE IF ~IsLetter(s[k]) THEN s[k]
                          ELSE IF FirstOfLetterRun(s, k) THEN upper(s[k])
                          ELSE lower(s[k])

C8_Witness ==
    /\ Succeeded(1)
    /\ LabelIn(1) = <<"a", "-", "B", "_">>
    /\ LabelOut(1) = <<"A", "-", "B", " ">>

\* what one call of the handler returns for a body and a reply, worked out
\* in one go from those two alone
RECURSIVE FormatAll(_, _)
FormatAll(elements, done) ==
    IF Len(done) = Len(elements) THEN SuccessResult(done)
    ELSE LET pred == elements[Len(done) + 1]
         IN  IF FormatError(pred) # ""
             THEN Except("Exception", FormatError(pred), done)
             ELSE FormatAll(elements, Append(done, FormatEntry(Len(done), pred)))

Expected(body, rep) ==
    IF ~body.nonempty \/ ~body.image_key THEN NoImageResult
    ELSE IF CleanError(body) # "" THEN Except("Exception", CleanError(body), <<>>)
    ELSE IF rep.exc # "none" THEN Except(rep.exc, rep.message, <<>>)
    ELSE IF Rejection(rep) # NoResult THEN Rejection(rep)
    ELSE FormatAll(Elements(Flatten(rep.json)), <<>>)

\* C9: with requests handled at once, each response is a function of that
\* request's own body and of the backend's reply to that request, and each
\* call carries that request's own image, under every interleaving.
C9_RequestsIndependent ==
    \A r \in Requests :
        /\ Done(r) => result[r] = Expected(request_json[r], backend_reply[r])
        /\ \A k \in DOMAIN outbox[r] :
              /\ outbox[r][k].inputs = CleanBase64(request_json[r].image)
              /\ outbox[r][k].headers = headers

\* one request finished while another stands in the middle of its loop
C9_Witness ==
    /\ Succeeded(1)
    /\ pc[2] = "format"
    /\ i[2] = 1
    /\ request_json[1] # request_json[2]
    /\ backend_reply[1] # backend_reply[2]

\* everything after the first occurrence of the marker
AfterFirstMarker(s) ==
    LET first == CHOOSE k \in 1..Len(s) :
                    /\ OccursAt(s, Marker, k)
                    /\ \A j \in 1..(k - 1) : ~OccursAt(s, Marker, j)
    IN  SubSeq(s, first + Len(Marker), Len(s))

\* C10: the string forwarded to the backend is everything after the first
\* 'base64,' of the image string, later occurrences included, and the image
\* string itself when it holds no 'base64,'.
C10_PayloadAfterFirstMarker ==
    \A r \in Requests :
        \A k \in DOMAIN outbox[r] :
            outbox[r][k].inputs =
                IF \E j \in 1..Len(request_json[r].image) :
                       OccursAt(request_json[r].image, Marker, j)
                THEN AfterFirstMarker(request_json[r].image)
                ELSE request_json[r].image

====
